---- MODULE Spec2Model ----
(***************************************************************************)
(* TelX (src/app.py): a Flask + SQLAlchemy social-feed backend.            *)
(*                                                                         *)
(* The state is the relational store (tables user, post, like, comment,    *)
(* follow), the requests that have run their SELECT and not yet their      *)
(* commit, and the last response sent.  A table is the set of its rows; a  *)
(* row is a record of the columns the handlers read or write.  Primary     *)
(* keys follow the default store of src/app.py line 25 (SQLite, INTEGER    *)
(* PRIMARY KEY without AUTOINCREMENT): a new row gets the largest id in    *)
(* the table plus one.  Foreign keys are declared but that store does not  *)
(* enforce them, so a row may name a caller id that is no account.         *)
(***************************************************************************)
EXTENDS Integers, Sequences, FiniteSets, Bags, TLC

VARIABLES users, posts, likes, comments, follows, pending, justRead, last,
          initData, verdict

db == <<users, posts, likes, comments, follows>>
vars == <<users, posts, likes, comments, follows, pending, justRead, last,
          initData, verdict>>

(***************************************************************************)
(* Bounds of the model.                                                    *)
(***************************************************************************)
MaxRowId == 2     \* like and follow rows get ids up to MaxRowId
MaxInflight == 2  \* requests between their SELECT and their commit
MaxPosts == 2     \* post rows
MaxComments == 1  \* comment rows
DirectorySize == 21  \* accounts of the store that discovery reads

\* request.headers.get('X-User-ID') when the header is absent (None)
NoHeader == -1
\* Query.first() when no row matches (None)
NoRow == 0

\* the inputs of the requests: X-User-ID (absent, 0, or an id), the post and
\* account ids of the URLs (post 2 and account 3 are never created in the
\* seeded stores below)
CallerIds == {0, 1, 2}
Headers == {NoHeader} \cup CallerIds
PostIds == {1, 2}
UserIds == {1, 2, 3}

Max(S) == CHOOSE m \in S : \A x \in S : x <= m

\* the id the store gives the next row of a table
NextId(rows) == IF rows = {} THEN 1 ELSE Max({r.id : r \in rows}) + 1

(***************************************************************************)
(* Uniqueness constraints of the tables.                                   *)
(***************************************************************************)
NoConstraint(rows, row) == TRUE

\* UniqueConstraint('user_id', 'post_id', name='unique_user_post_like')
unique_user_post_like(rows, row) ==
    \A l \in rows : ~(l.user_id = row.user_id /\ l.post_id = row.post_id)

\* UniqueConstraint('follower_id', 'following_id', name='unique_follow')
unique_follow(rows, row) ==
    \A f \in rows : ~(f.follower_id = row.follower_id /\ f.following_id = row.following_id)

\* db.session.delete(row) and the commit: DELETE ... WHERE id = <the row's id>.
\* A row that is gone by then matches nothing (SQLAlchemy warns and goes on).
DeleteKeepsRow(rows, id) == rows

delete_row(rows, id) == {x \in rows : x.id # id}

(***************************************************************************)
(* Responses.  Every handler ends by setting last to the response it       *)
(* sends; the fields a handler does not send keep the values of NoResp.    *)
(* Four fields are history, kept for the properties and sent to nobody:   *)
(*   atomic: the request's SELECT and its commit were adjacent steps       *)
(*   pre:    the (a, b) pairs of the toggled table right before the commit *)
(*   twice:  this response and the one before it are two atomic, answered  *)
(*           toggles of the same endpoint by the same caller on the same   *)
(*           target, with no other response between them                   *)
(*   first:  when twice, the action and pre of the first of the two        *)
(* and body is the content or bio the answered request carried.  user is   *)
(* the account view, views are the post views and accounts the ids of the  *)
(* account views of the response.                                          *)
(***************************************************************************)
NoFirst == [action |-> "", pre |-> {}]

\* no account view in the response
NoView == [id |-> 0, bio |-> <<>>, following_count |-> 0, followers_count |-> 0,
           posts_count |-> 0, is_following |-> FALSE]

NoResp == [op |-> "none", caller |-> NoHeader, target |-> 0, status |-> 0,
           error |-> "", action |-> "", count |-> 0, atomic |-> FALSE,
           pre |-> {}, twice |-> FALSE, first |-> NoFirst,
           filter |-> "", page |-> 0, per_page |-> 0, items |-> <<>>, total |-> 0,
           body |-> <<>>, user |-> NoView, views |-> <<>>, accounts |-> {}]

Resp(op, caller, target, status, error) ==
    [NoResp EXCEPT !.op = op, !.caller = caller, !.target = target,
                   !.status = status, !.error = error]

LikePairs(rows) == {<<l.user_id, l.post_id>> : l \in rows}
FollowPairs(rows) == {<<f.follower_id, f.following_id>> : f \in rows}

\* the history fields of a toggle's response, from the response before it
History(resp) ==
    LET twice == /\ resp.atomic /\ resp.status = 200
                 /\ last.atomic /\ last.status = 200
                 /\ last.op = resp.op /\ last.caller = resp.caller
                 /\ last.target = resp.target
    IN  [resp EXCEPT !.twice = twice,
                     !.first = IF twice THEN [action |-> last.action, pre |-> last.pre]
                               ELSE NoFirst]

\* a request that has read and not yet committed: its endpoint, its caller,
\* the id it names, the row its SELECT found, and the initData it carries
Req(op, caller, target, existing, data) ==
    [op |-> op, caller |-> caller, target |-> target, existing |-> existing,
     data |-> data]

NoReq == Req("none", NoHeader, 0, NoRow, <<>>)

Inflight == BagCardinality(pending)

\* a request may start while fewer than MaxInflight are between their SELECT
\* and their commit
Concurrent == Inflight < MaxInflight

\* a request may start only when no other is in flight
Sequential == pending = EmptyBag

AnyCallerAccepted(h) == FALSE

\* 'if not current_user_id', lines 298, 326, 377, 406, 475
not_authenticated(h) == h = NoHeader

PostAlwaysFound(post_id) == FALSE

\* Post.query.get_or_404(post_id) aborts with 404, lines 330, 386
post_not_found(post_id) == ~(\E p \in posts : p.id = post_id)

\* User.query.get_or_404(user_id) aborts with 404, lines 414, 478
user_not_found(user_id) == ~(\E u \in users : u.id = user_id)

(***************************************************************************)
(* Views.  The serializers query the store when they run; the tables they  *)
(* read are parameters, so that a handler passes the tables as they are    *)
(* after its commit.                                                       *)
(***************************************************************************)
\* 'if current_user_id:', lines 136, 165, 259: the header is None, or the
\* int of its text, and None and 0 are false
viewer_is_true(current_user_id) == current_user_id # NoHeader /\ current_user_id # 0

\* lines 129-157
serialize_user(user, current_user_id, follow_rows, post_rows) ==
    [id |-> user.id,
     bio |-> user.bio,
     following_count |-> Cardinality({f \in follow_rows : f.follower_id = user.id}),
     followers_count |-> Cardinality({f \in follow_rows : f.following_id = user.id}),
     posts_count |-> Cardinality({p \in post_rows : p.user_id = user.id}),
     is_following |-> IF viewer_is_true(current_user_id)
                      THEN \E f \in follow_rows : /\ f.follower_id = current_user_id
                                                  /\ f.following_id = user.id
                      ELSE FALSE]

\* lines 159-181; post.author is the account whose id is post.user_id
serialize_post(post, current_user_id, user_rows, post_rows, like_rows, comment_rows, follow_rows) ==
    [id |-> post.id,
     author |-> serialize_user(CHOOSE u \in user_rows : u.id = post.user_id,
                               current_user_id, follow_rows, post_rows),
     likes_count |-> Cardinality({l \in like_rows : l.post_id = post.id}),
     comments_count |-> Cardinality({c \in comment_rows : c.post_id = post.id}),
     is_liked |-> IF viewer_is_true(current_user_id)
                  THEN \E l \in like_rows : /\ l.user_id = current_user_id
                                            /\ l.post_id = post.id
                  ELSE FALSE]

(***************************************************************************)
(* POST /api/posts/<post_id>/like                                          *)
(***************************************************************************)
\* lines 325-336: the caller check, the post lookup, the SELECT of the like
toggle_like_read(h, post_id) ==
    /\ UNCHANGED <<db, initData, verdict>>
    /\ IF not_authenticated(h)
       THEN /\ last' = Resp("toggle_like", h, post_id, 401, "Authentication required")
            /\ justRead' = NoReq
            /\ UNCHANGED pending
       ELSE IF post_not_found(post_id)
       THEN /\ last' = Resp("toggle_like", h, post_id, 404, "Not Found")
            /\ justRead' = NoReq
            /\ UNCHANGED pending
       ELSE /\ \E e \in {l.id : l \in {x \in likes : x.user_id = h /\ x.post_id = post_id}}
                        \cup (IF \E x \in likes : x.user_id = h /\ x.post_id = post_id
                              THEN {} ELSE {NoRow}) :
                 LET r == Req("toggle_like", h, post_id, e, <<>>)
                 IN  /\ pending' = pending (+) SetToBag({r})
                     /\ justRead' = r
            /\ UNCHANGED last

CountsEveryPost(rows, post_id) == Cardinality(rows)

\* line 350
likes_count(rows, post_id) == Cardinality({l \in rows : l.post_id = post_id})

\* lines 338-356: delete or add, the commit, the count, the response
toggle_like_commit(r) ==
    /\ BagIn(r, pending)
    /\ r.op = "toggle_like"
    /\ pending' = pending (-) SetToBag({r})
    /\ justRead' = NoReq
    /\ UNCHANGED <<users, posts, comments, follows, initData, verdict>>
    /\ LET base == [Resp("toggle_like", r.caller, r.target, 200, "") EXCEPT
                       !.atomic = (justRead = r), !.pre = LikePairs(likes)]
           row == [id |-> NextId(likes), user_id |-> r.caller, post_id |-> r.target]
       IN  IF r.existing # NoRow
           THEN /\ likes' = delete_row(likes, r.existing)
                /\ last' = History([base EXCEPT !.action = "unliked",
                              !.count = likes_count(likes', r.target)])
           ELSE IF ~unique_user_post_like(likes, row)
           THEN /\ likes' = likes
                /\ last' = [base EXCEPT !.status = 500, !.error = "IntegrityError"]
           ELSE /\ row.id <= MaxRowId
                /\ likes' = likes \cup {row}
                /\ last' = History([base EXCEPT !.action = "liked",
                              !.count = likes_count(likes', r.target)])

(***************************************************************************)
(* POST /api/users/<user_id>/follow                                        *)
(***************************************************************************)
SelfFollowCheckSkipped(current_user_id, user_id) == FALSE

\* line 411
is_self_follow(current_user_id, user_id) == current_user_id = user_id

\* lines 405-420
toggle_follow_read(h, user_id) ==
    /\ UNCHANGED <<db, initData, verdict>>
    /\ IF not_authenticated(h)
       THEN /\ last' = Resp("toggle_follow", h, user_id, 401, "Authentication required")
            /\ justRead' = NoReq
            /\ UNCHANGED pending
       ELSE IF is_self_follow(h, user_id)
       THEN /\ last' = Resp("toggle_follow", h, user_id, 400, "Cannot follow yourself")
            /\ justRead' = NoReq
            /\ UNCHANGED pending
       ELSE IF user_not_found(user_id)
       THEN /\ last' = Resp("toggle_follow", h, user_id, 404, "Not Found")
            /\ justRead' = NoReq
            /\ UNCHANGED pending
       ELSE /\ \E e \in {f.id : f \in {x \in follows : x.follower_id = h /\ x.following_id = user_id}}
                        \cup (IF \E x \in follows : x.follower_id = h /\ x.following_id = user_id
                              THEN {} ELSE {NoRow}) :
                 LET r == Req("toggle_follow", h, user_id, e, <<>>)
                 IN  /\ pending' = pending (+) SetToBag({r})
                     /\ justRead' = r
            /\ UNCHANGED last

\* lines 422-437
toggle_follow_commit(r) ==
    /\ BagIn(r, pending)
    /\ r.op = "toggle_follow"
    /\ pending' = pending (-) SetToBag({r})
    /\ justRead' = NoReq
    /\ UNCHANGED <<users, posts, likes, comments, initData, verdict>>
    /\ LET base == [Resp("toggle_follow", r.caller, r.target, 200, "") EXCEPT
                       !.atomic = (justRead = r), !.pre = FollowPairs(follows)]
           row == [id |-> NextId(follows), follower_id |-> r.caller,
                   following_id |-> r.target]
           target_user == CHOOSE u \in users : u.id = r.target
           view(follow_rows) == serialize_user(target_user, r.caller, follow_rows, posts)
       IN  IF r.existing # NoRow
           THEN /\ follows' = delete_row(follows, r.existing)
                /\ last' = History([base EXCEPT !.action = "unfollowed",
                                                !.user = view(follows')])
           ELSE IF ~unique_follow(follows, row)
           THEN /\ follows' = follows
                /\ last' = [base EXCEPT !.status = 500, !.error = "IntegrityError"]
           ELSE /\ row.id <= MaxRowId
                /\ follows' = follows \cup {row}
                /\ last' = History([base EXCEPT !.action = "followed",
                                                !.user = view(follows')])

(***************************************************************************)
(* Accounts and posts of the seeded stores.                                *)
(***************************************************************************)
UserRow(id, tg, username, first_name, last_name, language_code, photo_url, bio) ==
    [id |-> id, telegram_id |-> tg, username |-> username,
     first_name |-> first_name, last_name |-> last_name,
     language_code |-> language_code, photo_url |-> photo_url, bio |-> bio]

PostRow(id, user_id, content) == [id |-> id, user_id |-> user_id, content |-> content]

Hi == <<"h", "i">>

\* a post of account 1
OnePost == {PostRow(1, 1, Hi)}

\* two accounts as authenticate stores them: no row has a bio yet
TwoUsers == {UserRow(1, 1, "a", "A", "None", "None", "None", <<>>),
             UserRow(2, 2, "b", "B", "None", "None", "None", <<>>)}

(***************************************************************************)
(* The like and follow toggles over a store with two accounts and one      *)
(* post.                                                                   *)
(***************************************************************************)
InitToggle ==
    /\ users = TwoUsers
    /\ posts = OnePost
    /\ likes = {}
    /\ comments = {}
    /\ follows = {}
    /\ pending = EmptyBag
    /\ justRead = NoReq
    /\ last = NoResp
    /\ initData = <<>>
    /\ verdict = [kind |-> "not_run", d |-> <<>>]  \* NotRun

PendingReqs == BagToSet(pending)

\* the callers of the toggle runs: no header, account 1, account 2
ToggleHeaders == {NoHeader, 1, 2}
\* where likes and follows race in one run, account 1 is the one that follows
FollowerHeaders == {NoHeader, 1}

NextToggle ==
    \/ \E h \in ToggleHeaders, p \in PostIds : Concurrent /\ toggle_like_read(h, p)
    \/ \E r \in PendingReqs : toggle_like_commit(r)
    \/ \E h \in FollowerHeaders, u \in UserIds : Concurrent /\ toggle_follow_read(h, u)
    \/ \E r \in PendingReqs : toggle_follow_commit(r)

SpecToggle == InitToggle /\ [][NextToggle]_vars

(***************************************************************************)
(* The follow toggle alone, with both accounts following.                  *)
(***************************************************************************)
NextFollow ==
    \/ \E h \in ToggleHeaders, u \in UserIds : Concurrent /\ toggle_follow_read(h, u)
    \/ \E r \in PendingReqs : toggle_follow_commit(r)

SpecFollow == InitToggle /\ [][NextFollow]_vars

(***************************************************************************)
(* C1: under every interleaving of concurrent toggle_like and              *)
(* toggle_follow requests (a SELECT, later an insert or delete and the     *)
(* commit), the like table holds at most one row for each (account, post)  *)
(* pair and the follow table at most one row for each ordered (follower,   *)
(* followed) pair.                                                         *)
(***************************************************************************)
C1_AtMostOneRowPerPair ==
    /\ \A a, b \in likes :
          (a.user_id = b.user_id /\ a.post_id = b.post_id) => a = b
    /\ \A a, b \in follows :
          (a.follower_id = b.follower_id /\ a.following_id = b.following_id) => a = b

\* two requests saw no row for the pair, one inserted it, and the other's
\* insert has just been refused by the constraint
C1_Witness ==
    /\ last.error = "IntegrityError"
    /\ \/ /\ last.op = "toggle_like"
          /\ \E l \in likes : l.user_id = last.caller /\ l.post_id = last.target
       \/ /\ last.op = "toggle_follow"
          /\ \E f \in follows : f.follower_id = last.caller /\ f.following_id = last.target

(***************************************************************************)
(* C2: a toggle request whose insert the uniqueness constraint refuses     *)
(* (both racing requests saw no row) does not end in an error: it is       *)
(* answered 200 with the normal result.                                    *)
(***************************************************************************)
C2_RejectedInsertIsRecovered ==
    (last.op \in {"toggle_like", "toggle_follow"} /\ last.caller # NoHeader
       /\ last.status \notin {400, 404})
    => (last.status = 200 /\ last.action \in {"liked", "unliked", "followed", "unfollowed"})

(***************************************************************************)
(* C4: two consecutive, non-interleaved toggles of the same endpoint by    *)
(* the same caller on the same existing target leave the table's set of    *)
(* (a, b) pairs as it was before the first, and report one 'liked' and one *)
(* 'unliked' (one 'followed' and one 'unfollowed').                        *)
(***************************************************************************)
C4_DoubleToggleRestores ==
    last.twice =>
        /\ last.op = "toggle_like" =>
              /\ LikePairs(likes) = last.first.pre
              /\ {last.first.action, last.action} = {"liked", "unliked"}
        /\ last.op = "toggle_follow" =>
              /\ FollowPairs(follows) = last.first.pre
              /\ {last.first.action, last.action} = {"followed", "unfollowed"}

\* a second like toggle has returned the table to a state that holds a row
\* of somebody else
C4_Witness ==
    /\ last.twice
    /\ last.op = "toggle_like"
    /\ last.first.action = "unliked"
    /\ Cardinality(likes) = 2

(***************************************************************************)
(* C5: a toggle_follow whose caller is the target is answered 400 'Cannot  *)
(* follow yourself' and changes no row; no follow row ever has its         *)
(* follower equal to its followed account.                                 *)
(***************************************************************************)
C5_SelfFollowRejected ==
    [][/\ \A f \in follows' : f.follower_id # f.following_id
       /\ (last'.op = "toggle_follow" /\ last'.caller = last'.target)
            => (last'.status = 400 /\ last'.error = "Cannot follow yourself"
                /\ UNCHANGED db)]_vars

\* a self-follow was refused in a store that holds follow rows
C5_Witness ==
    /\ last.op = "toggle_follow"
    /\ last.caller = last.target
    /\ last.status = 400
    /\ follows # {}

(***************************************************************************)
(* Text.  A string is the sequence of its characters; characters compare   *)
(* by code point, as Python's str does.  Alphabet lists the characters of  *)
(* the payloads in code-point order.                                       *)
(***************************************************************************)
Alphabet ==
    <<"\n", "\"", "%", ",", "0", "1", "2", "3", "4", "5", "6", "7", "8", "9",
      ":", "=", "A", "B", "C", "D", "W", "_", "a", "b", "d", "e", "f", "h",
      "i", "k", "l", "m", "n", "o", "p", "r", "s", "t", "u", "x", "y", "{",
      "}">>

Ord(c) == CHOOSE i \in 1..Len(Alphabet) : Alphabet[i] = c

\* str.__lt__
RECURSIVE str_lt(_, _)
str_lt(a, b) ==
    IF b = <<>> THEN FALSE
    ELSE IF a = <<>> THEN TRUE
    ELSE IF a[1] = b[1] THEN str_lt(Tail(a), Tail(b))
    ELSE Ord(a[1]) < Ord(b[1])

RECURSIVE insert_sorted(_, _)
insert_sorted(x, s) ==
    IF s = <<>> THEN <<x>>
    ELSE IF str_lt(x, s[1]) THEN <<x>> \o s
    ELSE <<s[1]>> \o insert_sorted(x, Tail(s))

RECURSIVE sort_list(_)
sort_list(s) == IF s = <<>> THEN <<>> ELSE insert_sorted(s[1], sort_list(Tail(s)))

Unsorted(s) == s

\* sorted(data_to_check), line 108
sorted(s) == sort_list(s)

\* sep.join(lines), line 108
RECURSIVE join(_, _)
join(sep, lines) ==
    IF lines = <<>> THEN <<>>
    ELSE IF Len(lines) = 1 THEN lines[1]
    ELSE lines[1] \o sep \o join(sep, Tail(lines))

\* the %XX escapes of the payloads and the character each stands for
Escapes ==
    {<<"{", <<"%", "7", "B">>>>, <<"}", <<"%", "7", "D">>>>,
     <<"\"", <<"%", "2", "2">>>>, <<":", <<"%", "3", "A">>>>,
     <<",", <<"%", "2", "C">>>>, <<"%", <<"%", "2", "5">>>>,
     <<"=", <<"%", "3", "D">>>>, <<"\n", <<"%", "0", "A">>>>}

\* urllib.parse.unquote: every %XX escape becomes its character, anything
\* else stays.  The text is decoded in two halves, cut where no escape can
\* straddle the cut (the two characters before the cut are not '%').
SafeCut(s, c) == s[c] # "%" /\ (c = 1 \/ s[c - 1] # "%")

RECURSIVE unquote_scan(_)
unquote_scan(s) ==
    IF s = <<>> THEN <<>>
    ELSE IF Len(s) >= 3 /\ \E e \in Escapes : e[2] = SubSeq(s, 1, 3)
    THEN <<(CHOOSE e \in Escapes : e[2] = SubSeq(s, 1, 3))[1]>>
           \o unquote_scan(SubSeq(s, 4, Len(s)))
    ELSE <<s[1]>> \o unquote_scan(Tail(s))

RECURSIVE unquote(_)
unquote(s) ==
    LET cuts == {c \in (Len(s) \div 2 - 2)..(Len(s) \div 2) : c >= 1 /\ SafeCut(s, c)}
    IN  IF Len(s) <= 8 \/ cuts = {} THEN unquote_scan(s)
        ELSE LET c == CHOOSE x \in cuts : TRUE
             IN  unquote(SubSeq(s, 1, c)) \o unquote(SubSeq(s, c + 1, Len(s)))

\* urllib.parse.quote(s, safe=''), what a client applies to a value it sends
RECURSIVE quote(_)
quote(s) ==
    IF s = <<>> THEN <<>>
    ELSE IF Len(s) = 1
    THEN (IF \E e \in Escapes : e[1] = s[1]
          THEN (CHOOSE e \in Escapes : e[1] = s[1])[2]
          ELSE s)
    ELSE quote(SubSeq(s, 1, Len(s) \div 2)) \o quote(SubSeq(s, Len(s) \div 2 + 1, Len(s)))

sHash ==
    <<"h", "a", "s", "h">>
sUser ==
    <<"u", "s", "e", "r">>
sAuthDate ==
    <<"a", "u", "t", "h", "_", "d", "a", "t", "e">>
sWebAppData ==
    <<"W", "e", "b", "A", "p", "p", "D", "a", "t", "a">>
\* app.config['BOT_TOKEN'], line 27
BOT_TOKEN ==
    <<"y", "o", "u", "r", "_", "b", "o", "t", "_", "t", "o", "k", "e", "n",
      "_", "h", "e", "r", "e">>
\* the token of another deployment
OtherToken ==
    <<"x">>

\* None where a string is expected
NoneText == <<"#None">>

(***************************************************************************)
(* HMAC-SHA256 is a keyed function taken to be injective: the digest of    *)
(* (key, msg) is a text that spells the pair.  A digest holds no '%':      *)
(* the hexadecimal digest of the code is left alone by unquote, and so is  *)
(* this one.                                                               *)
(***************************************************************************)
Spell(s) == [i \in 1..Len(s) |-> IF s[i] = "%" THEN "#pct" ELSE s[i]]

\* hmac.new(key, msg, hashlib.sha256).digest() / .hexdigest()
hmac_sha256(key, msg) == <<"#hmac(">> \o Spell(key) \o <<"#,">> \o Spell(msg) \o <<"#)">>

(***************************************************************************)
(* JSON.  json.loads is given by its values on the texts the payloads      *)
(* carry; any other text raises.  A Python value is a record of its kind   *)
(* and, for a dict, its items.                                             *)
(***************************************************************************)
NoItems == [k \in {} |-> 0]
PyNone == [kind |-> "None", d |-> NoItems]
PyRaise == [kind |-> "raise", d |-> NoItems]
PyDict(d) == [kind |-> "dict", d |-> d]
PyInt == [kind |-> "int", d |-> NoItems]
\* the value of verdict before validate_telegram_data has run
NotRun == [kind |-> "not_run", d |-> NoItems]

Json1A ==
    <<"{", "\"", "i", "d", "\"", ":", "1", ",", "\"", "f", "i", "r", "s",
      "t", "_", "n", "a", "m", "e", "\"", ":", "\"", "A", "\"", "}">>
Json1B ==
    <<"{", "\"", "i", "d", "\"", ":", "1", ",", "\"", "f", "i", "r", "s",
      "t", "_", "n", "a", "m", "e", "\"", ":", "\"", "B", "\"", ",", "\"",
      "u", "s", "e", "r", "n", "a", "m", "e", "\"", ":", "\"", "b", "\"", "}">>
Json2A ==
    <<"{", "\"", "i", "d", "\"", ":", "2", ",", "\"", "f", "i", "r", "s",
      "t", "_", "n", "a", "m", "e", "\"", ":", "\"", "A", "\"", "}">>
JsonNoId ==
    <<"{", "\"", "f", "i", "r", "s", "t", "_", "n", "a", "m", "e", "\"", ":",
      "\"", "A", "\"", "}">>
JsonNoFirst ==
    <<"{", "\"", "i", "d", "\"", ":", "1", "}">>
JsonEmpty ==
    <<"{", "}">>
JsonNull ==
    <<"n", "u", "l", "l">>
JsonBroken ==
    <<"{">>

json_loads(text) ==
    CASE text = Json1A -> PyDict([id |-> 1, first_name |-> "A"])
      [] text = Json1B -> PyDict([id |-> 1, first_name |-> "B", username |-> "b"])
      [] text = Json2A -> PyDict([id |-> 2, first_name |-> "A"])
      [] text = JsonNoId -> PyDict([first_name |-> "A"])
      [] text = JsonNoFirst -> PyDict([id |-> 1])
      [] text = JsonEmpty -> PyDict(NoItems)
      [] text = JsonNull -> PyNone
      [] text = <<"1">> -> PyInt
      [] OTHER -> PyRaise

\* bool(value): None and the empty dict are false
truthy(v) == (v.kind = "dict" /\ DOMAIN v.d # {}) \/ v.kind = "int"

(***************************************************************************)
(* validate_telegram_data.  init_data is the sequence of the name=value    *)
(* pairs between the '&' of the query string, each pair <<name, value>>    *)
(* as sent (percent-encoded).                                              *)
(***************************************************************************)
\* the dict of parse_qs, in insertion order: <<key, <<value, ...>>>> entries
dict_put(acc, name, value) ==
    IF \E i \in 1..Len(acc) : acc[i][1] = name
    THEN LET i == CHOOSE j \in 1..Len(acc) : acc[j][1] = name
         IN  [acc EXCEPT ![i] = <<name, Append(acc[i][2], value)>>]
    ELSE Append(acc, <<name, <<value>>>>)

\* urllib.parse.parse_qs: names and values are unquoted, a pair with a blank
\* value is dropped, values of one name are listed in order
RECURSIVE parse_qs_into(_, _)
parse_qs_into(fields, acc) ==
    IF fields = <<>> THEN acc
    ELSE IF Head(fields)[2] = <<>> THEN parse_qs_into(Tail(fields), acc)
    ELSE parse_qs_into(Tail(fields),
                       dict_put(acc, unquote(Head(fields)[1]), unquote(Head(fields)[2])))

parse_qs(init_data) == parse_qs_into(init_data, <<>>)

\* parsed_data.get(key, [None])[0]
first_value(parsed_data, key) ==
    IF \E i \in 1..Len(parsed_data) : parsed_data[i][1] = key
    THEN (parsed_data[CHOOSE i \in 1..Len(parsed_data) : parsed_data[i][1] = key])[2][1]
    ELSE NoneText

\* lines 102-105
RECURSIVE data_to_check(_)
data_to_check(items) ==
    IF items = <<>> THEN <<>>
    ELSE IF Head(items)[1] # sHash
    THEN <<Head(items)[1] \o <<"=">> \o Head(items)[2][1]>> \o data_to_check(Tail(items))
    ELSE data_to_check(Tail(items))

\* line 108
data_check_string(parsed_data) == join(<<"\n">>, sorted(data_to_check(parsed_data)))

\* lines 111-114
calculated_hash(parsed_data, bot_token) ==
    hmac_sha256(hmac_sha256(sWebAppData, bot_token), data_check_string(parsed_data))

AnyHashAccepted(calculated, received) == TRUE

\* line 117
hash_verified(calculated, received) == calculated = received

\* lines 90-126
validate_telegram_data(init_data, bot_token) ==
    LET parsed_data == parse_qs(init_data)
        received_hash == first_value(parsed_data, sHash)
        user_data == first_value(parsed_data, sUser)
        loaded == json_loads(unquote(user_data))
    IN  IF received_hash = NoneText THEN PyNone
        ELSE IF hash_verified(calculated_hash(parsed_data, bot_token), received_hash)
        THEN IF user_data # NoneText
             THEN IF loaded.kind = "raise" THEN PyNone ELSE loaded
             ELSE PyNone
        ELSE PyNone

(***************************************************************************)
(* validate_telegram_data as a function of the payload: the payload is     *)
(* drawn from the field lists below, signed or not, and validated once.    *)
(***************************************************************************)
MaxFields == 2  \* fields of a payload besides the hash that is added

fAuth == <<sAuthDate, <<"1">>>>
fUser1A == <<sUser, quote(Json1A)>>
fUserBroken == <<sUser, quote(JsonBroken)>>
fUserBlank == <<sUser, <<>>>>
fUserNull == <<sUser, JsonNull>>
fHashWrong == <<sHash, <<"0">>>>

VerifyFields == {fAuth, fUser1A, fUserBroken, fUserBlank, fUserNull, fHashWrong}

FieldLists == UNION {[1..k -> VerifyFields] : k \in 0..MaxFields}

RemoveAt(s, i) == SubSeq(s, 1, i - 1) \o SubSeq(s, i + 1, Len(s))
InsertAt(s, i, x) == SubSeq(s, 1, i) \o <<x>> \o SubSeq(s, i + 1, Len(s))

\* the field lists one field away from fs
Tampered(fs) ==
    {RemoveAt(fs, i) : i \in 1..Len(fs)}
      \cup {[fs EXCEPT ![i] = f] : i \in 1..Len(fs), f \in VerifyFields}

\* The signature the platform puts on a field list: HMAC-SHA256, keyed by
\* the HMAC of the token under "WebAppData", of the list's name=value lines
\* (decoded values, hash fields and blank values left out, the first value
\* of a name) in sorted order, joined by newlines.
FirstIndex(fs, name) ==
    LET idx == {i \in 1..Len(fs) : unquote(fs[i][1]) = name /\ fs[i][2] # <<>>}
    IN  IF idx = {} THEN 0 ELSE CHOOSE i \in idx : \A j \in idx : i <= j

FieldOf(fs, name) ==
    IF FirstIndex(fs, name) = 0 THEN NoneText ELSE unquote(fs[FirstIndex(fs, name)][2])

LineSet(fs) ==
    {unquote(fs[i][1]) \o <<"=">> \o unquote(fs[i][2]) :
        i \in {j \in 1..Len(fs) : /\ unquote(fs[j][1]) # sHash
                                  /\ FirstIndex(fs, unquote(fs[j][1])) = j}}

CanonicalCheckString(fs) ==
    LET S == LineSet(fs)
        n == Cardinality(S)
        inorder == CHOOSE s \in [1..n -> S] :
                      /\ \A i, j \in 1..n : i < j => str_lt(s[i], s[j])
    IN  join(<<"\n">>, inorder)

Signature(fs, token) ==
    hmac_sha256(hmac_sha256(sWebAppData, token), CanonicalCheckString(fs))

\* the payloads: a field list as it is, or with a hash field put in at any
\* place: the list's signature, that of a list one field away, or the
\* list's signature under another token
HashesFor(fs) ==
    {Signature(g, BOT_TOKEN) : g \in {fs} \cup Tampered(fs)}
      \cup {Signature(fs, OtherToken)}

Payloads ==
    FieldLists \cup
    UNION {{InsertAt(fs, i, <<sHash, h>>) : i \in 0..Len(fs), h \in HashesFor(fs)} :
              fs \in FieldLists}

InitVerify ==
    /\ users = {}
    /\ posts = {}
    /\ likes = {}
    /\ comments = {}
    /\ follows = {}
    /\ pending = EmptyBag
    /\ justRead = NoReq
    /\ last = NoResp
    /\ initData \in Payloads
    /\ verdict = NotRun

Verify ==
    /\ verdict = NotRun
    /\ verdict' = validate_telegram_data(initData, BOT_TOKEN)
    /\ UNCHANGED <<db, pending, justRead, last, initData>>

NextVerify == Verify

SpecVerify == InitVerify /\ [][NextVerify]_vars

SignatureMatches(fs) ==
    /\ FieldOf(fs, sHash) # NoneText
    /\ Signature(fs, BOT_TOKEN) = FieldOf(fs, sHash)

(***************************************************************************)
(* C6, as stated: validate_telegram_data returns an identity record if     *)
(* and only if the signature recomputed over the sorted, newline-joined    *)
(* name=value lines of the non-hash fields equals the payload's hash; a    *)
(* payload whose hash matches is never rejected.                           *)
(***************************************************************************)
C6_AcceptedIffSignatureMatches ==
    verdict # NotRun => ((verdict # PyNone) <=> SignatureMatches(initData))

(***************************************************************************)
(* C6, amended: validate_telegram_data returns a value other than None if  *)
(* and only if the recomputed signature equals the payload's hash and the  *)
(* payload has a user field whose value, URL-decoded once more, parses as  *)
(* JSON to something other than null; it then returns that parsed value.   *)
(* A payload whose hash differs, or that has no hash, is never accepted.   *)
(***************************************************************************)
C6_AcceptedIffSignedAndParsed ==
    verdict # NotRun =>
        LET user == FieldOf(initData, sUser)
            value == json_loads(unquote(user))
        IN  verdict = IF /\ SignatureMatches(initData)
                         /\ user # NoneText
                         /\ value.kind # "raise"
                      THEN value
                      ELSE PyNone

\* a payload of three fields, signed, was accepted with its identity
C6_Witness ==
    /\ verdict.kind = "dict"
    /\ "id" \in DOMAIN verdict.d
    /\ Len(initData) = 3
    /\ SignatureMatches(initData)

\* what a client sends: the fields and the platform's signature of them
Signed(fs) == Append(fs, <<sHash, Signature(fs, BOT_TOKEN)>>)

AuthPayloads ==
    {<<>>,
     <<fAuth, fUser1A>>,
     <<fAuth, fUser1A, <<sHash, Signature(<<fAuth, fUser1A>>, OtherToken)>>>>,
     Signed(<<fAuth>>),
     Signed(<<fAuth, fUserBroken>>),
     Signed(<<fAuth, <<sUser, quote(JsonNoId)>>>>),
     Signed(<<fAuth, <<sUser, quote(JsonNoFirst)>>>>),
     Signed(<<fAuth, <<sUser, quote(JsonEmpty)>>>>),
     Signed(<<fAuth, fUser1A>>),
     Signed(<<fUser1A, fAuth>>),
     Signed(<<fAuth, <<sUser, quote(Json1B)>>>>),
     Signed(<<fAuth, <<sUser, quote(Json2A)>>>>)}

\* validate_telegram_data(init_data, app.config['BOT_TOKEN']) of line 212,
\* evaluated once for each payload a request can carry
user_data_of == [p \in AuthPayloads |-> validate_telegram_data(p, BOT_TOKEN)]

(***************************************************************************)
(* POST /api/auth                                                          *)
(***************************************************************************)
\* unique=True of User.telegram_id, line 34
unique_telegram_id(rows, row) == \A u \in rows : u.telegram_id # row.telegram_id

\* dict.get(key): None when the key is missing
dict_get(d, key) == IF key \in DOMAIN d THEN d[key] ELSE "None"

\* lines 205-218: the body's initData, its validation, the SELECT of the
\* account by telegram_id; initData and verdict are those of the request
\* answered last
authenticate_read(init_data) ==
    LET answer(status, error, returned) ==
            /\ last' = Resp("authenticate", NoHeader, 0, status, error)
            /\ initData' = init_data
            /\ verdict' = returned
            /\ justRead' = NoReq
            /\ UNCHANGED pending
    IN  /\ UNCHANGED db
        /\ \E user_data \in {user_data_of[init_data]} :
             IF init_data = <<>> THEN answer(400, "No init data provided", NotRun)
             ELSE IF ~truthy(user_data) THEN answer(401, "Invalid Telegram data", user_data)
             ELSE IF user_data.kind # "dict" THEN answer(500, "TypeError", user_data)
             ELSE IF "id" \notin DOMAIN user_data.d THEN answer(500, "KeyError", user_data)
             ELSE /\ \E e \in {u.id : u \in {x \in users : x.telegram_id = user_data.d.id}}
                              \cup (IF \E x \in users : x.telegram_id = user_data.d.id
                                    THEN {} ELSE {NoRow}) :
                       LET r == Req("authenticate", NoHeader, user_data.d.id, e,
                                    [init_data |-> init_data, user_data |-> user_data])
                       IN  /\ pending' = pending (+) SetToBag({r})
                           /\ justRead' = r
                  /\ UNCHANGED <<last, initData, verdict>>

ReplacedUser(user, row) == row

\* lines 234-238: the columns an authentication of an existing account sets
update_user(user, row) ==
    [user EXCEPT !.username = row.username,
                 !.first_name = row.first_name,
                 !.last_name = row.last_name,
                 !.language_code = row.language_code,
                 !.photo_url = row.photo_url]

\* lines 220-245: the insert or the update, the commit, the response
authenticate_commit(r) ==
    /\ BagIn(r, pending)
    /\ r.op = "authenticate"
    /\ pending' = pending (-) SetToBag({r})
    /\ justRead' = NoReq
    /\ initData' = r.data.init_data
    /\ verdict' = r.data.user_data
    /\ UNCHANGED <<posts, likes, comments, follows>>
    /\ LET user_data == r.data.user_data.d
           base == [Resp("authenticate", NoHeader, r.target, 200, "") EXCEPT
                       !.atomic = (justRead = r)]
           row == UserRow(NextId(users), r.target, dict_get(user_data, "username"),
                          dict_get(user_data, "first_name"),
                          dict_get(user_data, "last_name"),
                          dict_get(user_data, "language_code"),
                          dict_get(user_data, "photo_url"), <<>>)
       IN  IF "first_name" \notin DOMAIN user_data
           THEN /\ users' = users
                /\ last' = [base EXCEPT !.status = 500, !.error = "KeyError"]
           ELSE IF r.existing = NoRow
           THEN IF ~unique_telegram_id(users, row)
                THEN /\ users' = users
                     /\ last' = [base EXCEPT !.status = 500, !.error = "IntegrityError"]
                ELSE /\ users' = users \cup {row}
                     /\ last' = [base EXCEPT !.action = "created", !.count = row.id]
           ELSE /\ users' = {IF u.id = r.existing THEN update_user(u, row) ELSE u :
                                u \in users}
                /\ last' = [base EXCEPT !.action = "updated", !.count = r.existing]

InitAuth ==
    /\ users = {}
    /\ posts = {}
    /\ likes = {}
    /\ comments = {}
    /\ follows = {}
    /\ pending = EmptyBag
    /\ justRead = NoReq
    /\ last = NoResp
    /\ initData = <<>>
    /\ verdict = NotRun

NextAuth ==
    \/ \E p \in AuthPayloads : Concurrent /\ authenticate_read(p)
    \/ \E r \in PendingReqs : authenticate_commit(r)

SpecAuth == InitAuth /\ [][NextAuth]_vars

(***************************************************************************)
(* C3: under every interleaving of concurrent authenticate requests whose  *)
(* verified identities carry the same telegram id (a SELECT by telegram    *)
(* id, later an insert or an update and the commit), the user table holds  *)
(* at most one account with that telegram id.                              *)
(***************************************************************************)
C3_OneAccountPerTelegramId ==
    \A a, b \in users : a.telegram_id = b.telegram_id => a = b

\* two requests found no account for the id, one created it, and the
\* other's insert has just been refused
C3_Witness ==
    /\ last.op = "authenticate"
    /\ last.error = "IntegrityError"
    /\ \E u \in users : u.telegram_id = last.target

(***************************************************************************)
(* C7: a payload that reaches the verifier and fails for a missing hash,   *)
(* for a hash that differs from the recomputed signature, or for a         *)
(* matching hash with an absent or unparseable user field or one that      *)
(* lacks the identity fields (id, first_name), is answered by the same     *)
(* generic authentication failure (401 'Invalid Telegram data').           *)
(***************************************************************************)
MissingSignature(p) == FieldOf(p, sHash) = NoneText

SignatureMismatch(p) == ~MissingSignature(p) /\ ~SignatureMatches(p)

MalformedIdentity(p) ==
    /\ SignatureMatches(p)
    /\ LET user == FieldOf(p, sUser)
           value == json_loads(unquote(user))
       IN  \/ user = NoneText
           \/ value.kind # "dict"
           \/ ~({"id", "first_name"} \subseteq DOMAIN value.d)

C7_AuthFailuresAreGeneric ==
    (/\ last.op = "authenticate"
     /\ initData # <<>>
     /\ \/ MissingSignature(initData)
        \/ SignatureMismatch(initData)
        \/ MalformedIdentity(initData))
    => (last.status = 401 /\ last.error = "Invalid Telegram data")

(***************************************************************************)
(* POST /api/posts, POST /api/posts/<post_id>/comments,                    *)
(* PUT /api/user/profile                                                   *)
(***************************************************************************)
\* 'len(content) > 280', lines 305 and 383
MaxContent == 280
\* 'data['bio'][:160]', line 483
MaxBio == 160

Whitespace == {" ", "\t", "\n", "\r"}

Min(S) == CHOOSE m \in S : \A x \in S : m <= x

\* str.strip(): from the first to the last character that is not whitespace
strip(s) ==
    LET kept == {i \in 1..Len(s) : s[i] \notin Whitespace}
        first == CHOOSE i \in kept : \A j \in 1..(i - 1) : s[j] \in Whitespace
        final == CHOOSE i \in kept : \A j \in (i + 1)..Len(s) : s[j] \in Whitespace
    IN  IF kept = {} THEN <<>> ELSE SubSeq(s, first, final)

RejectsAtLimit(content) == content = <<>> \/ Len(content) >= MaxContent

\* 'not content or len(content) > 280'
content_rejected(content) == content = <<>> \/ Len(content) > MaxContent

\* post.author / comment.author: the row's account, None when there is none;
\* serialize_user(None) raises AttributeError
has_author(user_id) == \E u \in users : u.id = user_id

\* a response together with the body of the request it answers
Sent(resp, body) == [resp EXCEPT !.body = body]

\* lines 294-320
create_post(h, body) ==
    LET content == strip(body)
        post == PostRow(NextId(posts), h, content)
    IN  /\ UNCHANGED <<users, likes, comments, follows, pending, initData, verdict>>
        /\ justRead' = NoReq
        /\ IF not_authenticated(h)
           THEN /\ last' = Sent(Resp("create_post", h, 0, 401, "Authentication required"), body)
                /\ UNCHANGED posts
           ELSE IF content_rejected(content)
           THEN /\ last' = Sent(Resp("create_post", h, 0, 400,
                                     "Content must be between 1 and 280 characters"), body)
                /\ UNCHANGED posts
           ELSE /\ post.id <= MaxPosts
                /\ posts' = posts \cup {post}
                /\ last' = IF has_author(h)
                           THEN Sent(Resp("create_post", h, post.id, 201, ""), body)
                           ELSE Sent(Resp("create_post", h, post.id, 500, "AttributeError"), body)

\* lines 373-400
create_comment(h, post_id, body) ==
    LET content == strip(body)
        comment == [id |-> NextId(comments), user_id |-> h, post_id |-> post_id,
                    content |-> content]
    IN  /\ UNCHANGED <<users, posts, likes, follows, pending, initData, verdict>>
        /\ justRead' = NoReq
        /\ IF not_authenticated(h)
           THEN /\ last' = Sent(Resp("create_comment", h, post_id, 401, "Authentication required"), body)
                /\ UNCHANGED comments
           ELSE IF content_rejected(content)
           THEN /\ last' = Sent(Resp("create_comment", h, post_id, 400,
                                     "Content must be between 1 and 280 characters"), body)
                /\ UNCHANGED comments
           ELSE IF post_not_found(post_id)
           THEN /\ last' = Sent(Resp("create_comment", h, post_id, 404, "Not Found"), body)
                /\ UNCHANGED comments
           ELSE /\ comment.id <= MaxComments
                /\ comments' = comments \cup {comment}
                /\ last' = IF has_author(h)
                           THEN Sent(Resp("create_comment", h, post_id, 201, ""), body)
                           ELSE Sent(Resp("create_comment", h, post_id, 500, "AttributeError"), body)

\* the body of a profile update without a 'bio' key
NoBio == <<"#None">>

BioKeptWhole(bio) == bio

\* 'data['bio'][:160]', line 483
truncate_bio(bio) == SubSeq(bio, 1, Min({Len(bio), MaxBio}))

\* lines 471-491
update_profile(h, bio) ==
    /\ UNCHANGED <<posts, likes, comments, follows, pending, initData, verdict>>
    /\ justRead' = NoReq
    /\ IF not_authenticated(h)
       THEN /\ last' = Sent(Resp("update_profile", h, 0, 401, "Authentication required"), bio)
            /\ UNCHANGED users
       ELSE IF user_not_found(h)
       THEN /\ last' = Sent(Resp("update_profile", h, h, 404, "Not Found"), bio)
            /\ UNCHANGED users
       ELSE /\ users' = {IF u.id = h /\ bio # NoBio
                         THEN [u EXCEPT !.bio = truncate_bio(bio)]
                         ELSE u : u \in users}
            /\ last' = Sent([Resp("update_profile", h, h, 200, "") EXCEPT
                                !.user = serialize_user(CHOOSE u \in users' : u.id = h, h,
                                                        follows, posts)], bio)

(***************************************************************************)
(* GET /api/posts.  created_at is the time of the insert, so the posts     *)
(* ordered by created_at are the posts ordered by id.                      *)
(***************************************************************************)
RECURSIVE newest_first(_)
newest_first(rows) ==
    IF rows = {} THEN <<>>
    ELSE LET p == CHOOSE x \in rows : \A y \in rows : y.id <= x.id
         IN  <<p>> \o newest_first(rows \ {p})

LikesIgnored(rows) == newest_first(rows)

like_count(post_id) == Cardinality({l \in likes : l.post_id = post_id})

\* order_by(count(Like.id).desc(), Post.created_at.desc())
RECURSIVE most_liked_first(_)
most_liked_first(rows) ==
    IF rows = {} THEN <<>>
    ELSE LET p == CHOOSE x \in rows : \A y \in rows :
                     \/ like_count(y.id) < like_count(x.id)
                     \/ (like_count(y.id) = like_count(x.id) /\ y.id <= x.id)
         IN  <<p>> \o most_liked_first(rows \ {p})

\* lines 259-276: the rows of the query, in its order
feed_query(current_user_id, filter_type) ==
    IF filter_type = "following" /\ viewer_is_true(current_user_id)
    THEN LET following_ids == {f.following_id :
                                  f \in {x \in follows : x.follower_id = current_user_id}}
         IN  newest_first({p \in posts : p.user_id \in following_ids})
    ELSE IF filter_type = "trending"
    THEN most_liked_first({p \in posts : \E l \in likes : l.post_id = p.id})
    ELSE newest_first(posts)

\* Query.paginate(page, per_page, error_out=False).items
page_items(rows, page, per_page) ==
    IF (page - 1) * per_page >= Len(rows) THEN <<>>
    ELSE SubSeq(rows, (page - 1) * per_page + 1, Min({page * per_page, Len(rows)}))

\* lines 247-292
get_posts(h, filter_type, page, per_page) ==
    LET rows == feed_query(h, filter_type)
        shown == page_items(rows, page, per_page)
        base == [Resp("get_posts", h, 0, 200, "") EXCEPT
                    !.filter = filter_type, !.page = page, !.per_page = per_page]
    IN  /\ UNCHANGED <<db, pending, initData, verdict>>
        /\ justRead' = NoReq
        /\ last' = IF \A i \in 1..Len(shown) : has_author(shown[i].user_id)
                   THEN [base EXCEPT !.items = [i \in 1..Len(shown) |-> shown[i].id],
                                     !.views = [i \in 1..Len(shown) |->
                                                   serialize_post(shown[i], h, users, posts,
                                                                  likes, comments, follows)],
                                     !.total = Len(rows)]
                   ELSE [base EXCEPT !.status = 500, !.error = "AttributeError"]

Filters == {"latest", "following", "trending"}

(***************************************************************************)
(* The five mutating endpoints, one request at a time, over the store of   *)
(* two accounts and one post; the caller is account 1 or sends no header.  *)
(***************************************************************************)
MutateHeaders == {NoHeader, 1}
Bodies == {<<>>, <<" ">>, <<" ", "h", "i">>}
Bios == {NoBio, <<"b", "i", "o">>}

NextMutate ==
    \/ \E h \in MutateHeaders, c \in Bodies : Sequential /\ create_post(h, c)
    \/ \E h \in MutateHeaders, p \in PostIds, c \in Bodies :
          Sequential /\ create_comment(h, p, c)
    \/ \E h \in MutateHeaders, b \in Bios : Sequential /\ update_profile(h, b)
    \/ \E h \in MutateHeaders, p \in PostIds : Sequential /\ toggle_like_read(h, p)
    \/ \E r \in PendingReqs : toggle_like_commit(r)
    \/ \E h \in MutateHeaders, u \in UserIds : Sequential /\ toggle_follow_read(h, u)
    \/ \E r \in PendingReqs : toggle_follow_commit(r)

SpecMutate == InitToggle /\ [][NextMutate]_vars

(***************************************************************************)
(* C8: create_post, toggle_like, create_comment, toggle_follow and         *)
(* update_profile, called without X-User-ID, answer 401 'Authentication    *)
(* required' and leave every table as it was.                              *)
(***************************************************************************)
MutatingOps ==
    {"create_post", "toggle_like", "create_comment", "toggle_follow", "update_profile"}

C8_NoCallerNoChange ==
    [][(last'.op \in MutatingOps /\ last'.caller = NoHeader)
          => (/\ last'.status = 401
              /\ last'.error = "Authentication required"
              /\ UNCHANGED db)]_vars

\* a request without the header was refused in a store that every endpoint
\* has written to
C8_Witness ==
    /\ last.op \in MutatingOps
    /\ last.caller = NoHeader
    /\ last.status = 401
    /\ Cardinality(posts) > 1
    /\ comments # {}
    /\ likes # {}
    /\ follows # {}
    /\ \E u \in users : u.bio # <<>>

(***************************************************************************)
(* The feed, one request at a time: accounts 1 and 2 post, callers 0 and 1 *)
(* follow, and the feed is read with and without a caller.                 *)
(***************************************************************************)
InitFeed ==
    /\ users = TwoUsers
    /\ posts = {}
    /\ likes = {}
    /\ comments = {}
    /\ follows = {}
    /\ pending = EmptyBag
    /\ justRead = NoReq
    /\ last = NoResp
    /\ initData = <<>>
    /\ verdict = NotRun

NextFeed ==
    \/ \E h \in {1, 2} : Sequential /\ create_post(h, Hi)
    \/ \E h \in {0, 1}, u \in {1, 2} : Sequential /\ toggle_follow_read(h, u)
    \/ \E r \in PendingReqs : toggle_follow_commit(r)
    \/ \E h \in Headers, f \in Filters, page \in {1, 2}, per_page \in {1, 20} :
          Sequential /\ get_posts(h, f, page, per_page)

SpecFeed == InitFeed /\ [][NextFeed]_vars

\* the posts whose author the viewer follows, newest first
FollowedPosts(viewer) ==
    newest_first({p \in posts : \E f \in follows :
                     f.follower_id = viewer /\ f.following_id = p.user_id})

(***************************************************************************)
(* C9: the 'following' feed of a supplied viewer is exactly the posts      *)
(* whose author is the followed end of one of the viewer's follow rows     *)
(* (the requested page of them, and their number as total); for a viewer   *)
(* who follows nobody it is empty with total 0, whatever posts exist.      *)
(***************************************************************************)
C9_FollowingFeedIsFollowedPosts ==
    (last.op = "get_posts" /\ last.filter = "following" /\ last.caller # NoHeader)
    => /\ last.status = 200
       /\ last.total = Len(FollowedPosts(last.caller))
       /\ \A i \in 1..Len(last.items) :
             \E j \in 1..Len(FollowedPosts(last.caller)) :
                 FollowedPosts(last.caller)[j].id = last.items[i]

(***************************************************************************)
(* C10: the 'following' feed without a viewer is empty (no posts, total    *)
(* 0), also when posts exist.                                              *)
(***************************************************************************)
C10_FollowingFeedWithoutViewerIsEmpty ==
    (last.op = "get_posts" /\ last.filter = "following" /\ last.caller = NoHeader)
    => (last.status = 200 /\ last.items = <<>> /\ last.total = 0)

(***************************************************************************)
(* The trending feed, one request at a time, over a store of two posts     *)
(* that accounts 1 and 2 have liked three times; likes are toggled and the *)
(* feed is read.                                                           *)
(***************************************************************************)
LikeRow(id, user_id, post_id) == [id |-> id, user_id |-> user_id, post_id |-> post_id]

TwoPosts == {PostRow(1, 1, Hi), PostRow(2, 2, Hi)}

ThreeLikes == {LikeRow(1, 1, 1), LikeRow(2, 2, 1), LikeRow(3, 1, 2)}

InitTrending ==
    /\ users = TwoUsers
    /\ posts = TwoPosts
    /\ likes = ThreeLikes
    /\ comments = {}
    /\ follows = {}
    /\ pending = EmptyBag
    /\ justRead = NoReq
    /\ last = NoResp
    /\ initData = <<>>
    /\ verdict = NotRun

NextTrending ==
    \/ \E h \in {1, 2}, p \in PostIds : Sequential /\ toggle_like_read(h, p)
    \/ \E r \in PendingReqs : toggle_like_commit(r)
    \/ \E h \in Headers, f \in Filters, page \in {1, 2}, per_page \in {1, 20} :
          Sequential /\ get_posts(h, f, page, per_page)

SpecTrending == InitTrending /\ [][NextTrending]_vars

\* the ids of the posts that have a like row, and the number of like rows
\* of a post
LikedPosts == {p.id : p \in {x \in posts : \E l \in likes : l.post_id = x.id}}
LikesOf(id) == Cardinality({l \in likes : l.post_id = id})

\* post a comes before post b in the trending order (ids grow with the
\* creation time)
TrendsBefore(a, b) == LikesOf(a) > LikesOf(b) \/ (LikesOf(a) = LikesOf(b) /\ a > b)

(***************************************************************************)
(* C11: the 'trending' feed lists only posts that have at least one like   *)
(* row, by like count descending and then creation time descending: the    *)
(* i-th post of the page is the liked post that exactly                    *)
(* (page - 1) * per_page + i - 1 liked posts come before, total is the     *)
(* number of liked posts, and with no like row the feed is empty.          *)
(***************************************************************************)
C11_TrendingOnlyLikedByCount ==
    (last.op = "get_posts" /\ last.filter = "trending")
    => /\ last.status = 200
       /\ last.total = Cardinality(LikedPosts)
       /\ Len(last.items) =
             Cardinality({k \in 1..last.per_page :
                             (last.page - 1) * last.per_page + k <= Cardinality(LikedPosts)})
       /\ \A i \in 1..Len(last.items) :
             /\ last.items[i] \in LikedPosts
             /\ Cardinality({q \in LikedPosts : TrendsBefore(q, last.items[i])})
                   = (last.page - 1) * last.per_page + i - 1
       /\ likes = {} => last.items = <<>>

\* the older post is listed before the newer one because it has more likes
C11_Witness ==
    /\ last.op = "get_posts"
    /\ last.filter = "trending"
    /\ last.items = <<1, 2>>
    /\ LikesOf(1) = 2
    /\ LikesOf(2) = 1

(***************************************************************************)
(* Posts and comments, one request at a time, with bodies around the       *)
(* limit of 280 characters.                                                *)
(***************************************************************************)
Repeat(c, n) == [i \in 1..n |-> c]

AtLimit == Repeat("x", MaxContent)
OverLimit == Repeat("x", MaxContent + 1)

ContentBodies ==
    {<<>>, <<" ">>, <<" ", "h", "i", "\n">>,
     AtLimit, <<" ">> \o AtLimit \o <<" ", " ">>, OverLimit}

NextContent ==
    \/ \E h \in FollowerHeaders, c \in ContentBodies : Sequential /\ create_post(h, c)
    \/ \E h \in FollowerHeaders, p \in PostIds, c \in ContentBodies :
          Sequential /\ create_comment(h, p, c)

SpecContent == InitToggle /\ [][NextContent]_vars

\* the number of whitespace characters a text starts with, and ends with
LeadingSpace(s) ==
    CHOOSE k \in 0..Len(s) :
        /\ \A m \in 1..k : s[m] \in Whitespace
        /\ k < Len(s) => s[k + 1] \notin Whitespace
TrailingSpace(s) ==
    CHOOSE k \in 0..Len(s) :
        /\ \A m \in (Len(s) - k + 1)..Len(s) : s[m] \in Whitespace
        /\ k < Len(s) => s[Len(s) - k] \notin Whitespace

\* the length of a text without its surrounding whitespace
TrimmedLen(s) ==
    IF LeadingSpace(s) = Len(s) THEN 0 ELSE Len(s) - LeadingSpace(s) - TrailingSpace(s)

(***************************************************************************)
(* C12: create_post, and create_comment on an existing post, called with   *)
(* X-User-ID, store a new row if and only if the body without its          *)
(* surrounding whitespace has 1 to 280 characters (exactly 280 is          *)
(* accepted): then exactly one row is added to the table of the endpoint,  *)
(* and otherwise the request is answered 400 and both tables are as they   *)
(* were.                                                                   *)
(***************************************************************************)
C12_RowStoredIffLengthInRange ==
    [][(/\ last'.op \in {"create_post", "create_comment"}
        /\ last'.caller # NoHeader
        /\ last'.op = "create_comment" => \E p \in posts : p.id = last'.target)
       => IF TrimmedLen(last'.body) >= 1 /\ TrimmedLen(last'.body) <= 280
          THEN /\ last'.status = 201
               /\ IF last'.op = "create_post"
                  THEN /\ posts \subseteq posts'
                       /\ Cardinality(posts') = Cardinality(posts) + 1
                       /\ comments' = comments
                  ELSE /\ comments \subseteq comments'
                       /\ Cardinality(comments') = Cardinality(comments) + 1
                       /\ posts' = posts
          ELSE /\ last'.status = 400
               /\ posts' = posts
               /\ comments' = comments]_vars

\* a body of 280 characters between spaces was stored as a post
C12_Witness ==
    /\ last.op = "create_post"
    /\ last.status = 201
    /\ Len(last.body) = 283
    /\ \E p \in posts : Len(p.content) = 280

(***************************************************************************)
(* C13: a toggle_like whose SELECT and commit are not interleaved with     *)
(* another request answers 'liked' exactly when no like row of (caller,    *)
(* post) existed before it and 'unliked' exactly when one existed, and the *)
(* count it returns is the number of like rows of the post after it: the   *)
(* number before plus one for 'liked', minus one for 'unliked'.            *)
(***************************************************************************)
C13_ActionAndCountMatchRows ==
    (last.op = "toggle_like" /\ last.atomic)
    => LET before == Cardinality({pr \in last.pre : pr[2] = last.target})
           existed == <<last.caller, last.target>> \in last.pre
       IN  /\ last.status = 200
           /\ last.action = IF existed THEN "unliked" ELSE "liked"
           /\ last.count = Cardinality({l \in likes : l.post_id = last.target})
           /\ last.count = IF existed THEN before - 1 ELSE before + 1

\* an unlike left one like on the post while the other post has a like too
C13_Witness ==
    /\ last.op = "toggle_like"
    /\ last.atomic
    /\ last.action = "unliked"
    /\ last.count = 1
    /\ \E l \in likes : l.post_id # last.target

(***************************************************************************)
(* The views, one request at a time, over two accounts with a post each:   *)
(* callers 0 and 1 like and follow, and the feed is read by every caller.  *)
(***************************************************************************)
InitViews ==
    /\ users = TwoUsers
    /\ posts = TwoPosts
    /\ likes = {}
    /\ comments = {}
    /\ follows = {}
    /\ pending = EmptyBag
    /\ justRead = NoReq
    /\ last = NoResp
    /\ initData = <<>>
    /\ verdict = NotRun

NextViews ==
    \/ \E h \in {0, 1}, p \in PostIds : Sequential /\ toggle_like_read(h, p)
    \/ \E r \in PendingReqs : toggle_like_commit(r)
    \/ \E h \in {0, 1}, u \in {1, 2} : Sequential /\ toggle_follow_read(h, u)
    \/ \E r \in PendingReqs : toggle_follow_commit(r)
    \/ \E h \in Headers : Sequential /\ get_posts(h, "latest", 1, 20)

SpecViews == InitViews /\ [][NextViews]_vars

\* an account view shows the rows of the store, for the viewer of the request
AccountViewExact(v, viewer) ==
    /\ v.followers_count = Cardinality({f \in follows : f.following_id = v.id})
    /\ v.following_count = Cardinality({f \in follows : f.follower_id = v.id})
    /\ v.posts_count = Cardinality({p \in posts : p.user_id = v.id})
    /\ v.is_following <=>
          (viewer # NoHeader /\ <<viewer, v.id>> \in FollowPairs(follows))

PostViewExact(v, viewer) ==
    /\ v.likes_count = Cardinality({l \in likes : l.post_id = v.id})
    /\ v.is_liked <=> (viewer # NoHeader /\ <<viewer, v.id>> \in LikePairs(likes))
    /\ AccountViewExact(v.author, viewer)

(***************************************************************************)
(* C14: the account view's follower, following and post counts are the     *)
(* numbers of the rows stored, and is_following is true exactly when a     *)
(* viewer is supplied and the follow row (viewer, account) exists; the     *)
(* post view's like count is the number of like rows of the post and       *)
(* is_liked is true exactly when a viewer is supplied and the like row     *)
(* (viewer, post) exists.  The view returned by a toggle_follow that       *)
(* reports 'followed' shows is_following true and one follower more than   *)
(* before.                                                                 *)
(***************************************************************************)
C14_ViewsShowStoredRows ==
    /\ (last.op = "get_posts" /\ last.status = 200)
       => \A i \in 1..Len(last.views) : PostViewExact(last.views[i], last.caller)
    /\ (last.op = "toggle_follow" /\ last.status = 200)
       => /\ AccountViewExact(last.user, last.caller)
          /\ (last.atomic /\ last.action = "followed")
             => /\ last.user.is_following
                /\ last.user.followers_count =
                      Cardinality({pr \in last.pre : pr[2] = last.target}) + 1

(***************************************************************************)
(* Authentication over a store in use: account 1 (telegram id 1) has a     *)
(* bio, a post, a like and a comment, and account 2 (telegram id 7)        *)
(* follows it.                                                             *)
(***************************************************************************)
Bio == <<"b", "i", "o">>

InitLogin ==
    /\ users = {UserRow(1, 1, "a", "A", "None", "None", "None", Bio),
                UserRow(2, 7, "c", "C", "None", "None", "None", <<>>)}
    /\ posts = OnePost
    /\ likes = {LikeRow(1, 1, 1)}
    /\ comments = {[id |-> 1, user_id |-> 2, post_id |-> 1, content |-> Hi]}
    /\ follows = {[id |-> 1, follower_id |-> 2, following_id |-> 1]}
    /\ pending = EmptyBag
    /\ justRead = NoReq
    /\ last = NoResp
    /\ initData = <<>>
    /\ verdict = NotRun

SpecLogin == InitLogin /\ [][NextAuth]_vars

(***************************************************************************)
(* C15: an authenticate that is answered 200 and whose SELECT and commit   *)
(* are not interleaved with another request adds exactly one account (with *)
(* a new id and the record's values) when no account has the record's      *)
(* telegram id, and otherwise adds none: it sets the username, first name, *)
(* last name, language code and photo of the account with that telegram id *)
(* to the record's values, keeps its id, telegram id and bio and every     *)
(* other account, and leaves posts, likes, comments and follows unchanged. *)
(***************************************************************************)
C15_CreatesOneOrRefreshes ==
    [][(/\ BagCardinality(pending') < BagCardinality(pending)
        /\ last'.op = "authenticate"
        /\ last'.status = 200
        /\ last'.atomic)
       => LET record == verdict'.d
              known == {u \in users : u.telegram_id = record.id}
              Refreshed(u, v) ==
                  /\ v.username = dict_get(record, "username")
                  /\ v.first_name = record.first_name
                  /\ v.last_name = dict_get(record, "last_name")
                  /\ v.language_code = dict_get(record, "language_code")
                  /\ v.photo_url = dict_get(record, "photo_url")
                  /\ v.telegram_id = record.id
          IN  /\ UNCHANGED <<posts, likes, comments, follows>>
              /\ IF known = {}
                 THEN /\ users \subseteq users'
                      /\ Cardinality(users') = Cardinality(users) + 1
                      /\ \A v \in users' \ users :
                            /\ Refreshed(v, v)
                            /\ \A u \in users : u.id # v.id
                 ELSE /\ Cardinality(users') = Cardinality(users)
                      /\ \A u \in users \ known : u \in users'
                      /\ \A u \in known :
                            \E v \in users' :
                                /\ v.id = u.id
                                /\ v.bio = u.bio
                                /\ Refreshed(u, v)]_vars

\* account 1 was refreshed by a record without a username (its username
\* is now None) and kept its bio, after an account was created for telegram
\* id 2
C15_Witness ==
    /\ last.op = "authenticate"
    /\ last.atomic
    /\ last.action = "updated"
    /\ \E u \in users : u.id = 1 /\ u.first_name = "A" /\ u.username = "None" /\ u.bio = Bio
    /\ \E u \in users : u.id = 3 /\ u.telegram_id = 2

(***************************************************************************)
(* Requests that name rows that are not there, one request at a time:      *)
(* post 2 is absent until account 1 creates it and account 3 is never      *)
(* created; the caller is account 1, and for update_profile also the       *)
(* absent account 3.                                                       *)
(***************************************************************************)
AbsentHeaders == {1, 3}

NextAbsent ==
    \/ Sequential /\ create_post(1, Hi)
    \/ \E p \in PostIds : Sequential /\ toggle_like_read(1, p)
    \/ \E r \in PendingReqs : toggle_like_commit(r)
    \/ \E p \in PostIds, c \in Bodies : Sequential /\ create_comment(1, p, c)
    \/ \E u \in UserIds : Sequential /\ toggle_follow_read(1, u)
    \/ \E r \in PendingReqs : toggle_follow_commit(r)
    \/ \E h \in AbsentHeaders, b \in Bios : Sequential /\ update_profile(h, b)

SpecAbsent == InitToggle /\ [][NextAbsent]_vars

(***************************************************************************)
(* C16: with X-User-ID and otherwise valid input, a toggle_like or a       *)
(* create_comment on a post that does not exist, a toggle_follow on an     *)
(* account that does not exist and an update_profile of a caller that has  *)
(* no account are answered 404 and change no row of any table.             *)
(***************************************************************************)
C16_AbsentTargetIsNotFound ==
    [][(/\ last'.caller # NoHeader
        /\ \/ /\ last'.op = "toggle_like"
              /\ \A p \in posts : p.id # last'.target
           \/ /\ last'.op = "create_comment"
              /\ \A p \in posts : p.id # last'.target
              /\ TrimmedLen(last'.body) >= 1
              /\ TrimmedLen(last'.body) <= 280
           \/ /\ last'.op = "toggle_follow"
              /\ last'.caller # last'.target
              /\ \A u \in users : u.id # last'.target
           \/ /\ last'.op = "update_profile"
              /\ \A u \in users : u.id # last'.caller)
       => (last'.status = 404 /\ UNCHANGED db)]_vars

\* a valid comment on the absent post 2 was refused in a store that the
\* other endpoints have written to
C16_Witness ==
    /\ last.op = "create_comment"
    /\ last.target = 2
    /\ last.status = 404
    /\ last.body # <<>>
    /\ comments # {}
    /\ likes # {}
    /\ follows # {}

\* the orders in which the fields of a payload can be written
Reorderings(fs) ==
    {[i \in 1..Len(fs) |-> fs[p[i]]] :
        p \in {q \in [1..Len(fs) -> 1..Len(fs)] : \A i, j \in 1..Len(fs) : q[i] = q[j] => i = j}}

DistinctNames(fs) == \A i, j \in 1..Len(fs) : fs[i][1] = fs[j][1] => i = j

(***************************************************************************)
(* C17: for a payload whose field names are distinct, every reordering of  *)
(* its fields has the same check string and gets the same result from      *)
(* validate_telegram_data: rejected alike, or accepted with the same       *)
(* identity.                                                               *)
(***************************************************************************)
C17_FieldOrderIrrelevant ==
    (verdict # NotRun /\ DistinctNames(initData))
    => \A fs \in Reorderings(initData) :
          /\ data_check_string(parse_qs(fs)) = data_check_string(parse_qs(initData))
          /\ validate_telegram_data(fs, BOT_TOKEN) = verdict

\* a payload written hash first, user second and auth_date last, against
\* the sorted order of its lines, was accepted
C17_Witness ==
    /\ verdict.kind = "dict"
    /\ Len(initData) = 3
    /\ initData[1][1] = sHash
    /\ initData[2][1] = sUser
    /\ initData[3][1] = sAuthDate

(***************************************************************************)
(* GET /api/users                                                          *)
(***************************************************************************)
\* 'limit(20)', lines 448 and 450
DiscoverLimit == 20

SelfNotExcluded(current_user_id) ==
    {f.following_id : f \in {x \in follows : x.follower_id = current_user_id}}

\* lines 446-447: following_ids with the caller appended
excluded_ids(current_user_id) ==
    {f.following_id : f \in {x \in follows : x.follower_id = current_user_id}}
        \cup {current_user_id}

\* the sets of n elements of S
RECURSIVE Picks(_, _)
Picks(S, n) ==
    IF n = 0 THEN {{}}
    ELSE UNION {{D \cup {x} : x \in S \ D} : D \in Picks(S, n - 1)}

\* Query.limit(20).all() without an order_by: the store returns the rows
\* when they are at most 20, and otherwise 20 of them, which ones is its
\* choice; modelled by the rows it leaves out
limit_all(rows) ==
    IF Cardinality(rows) <= DiscoverLimit THEN {rows}
    ELSE {rows \ D : D \in Picks(rows, Cardinality(rows) - DiscoverLimit)}

\* lines 439-454; 'if current_user_id:' tests the header's text, so the
\* header 0 is a viewer here
get_users(h) ==
    /\ UNCHANGED <<db, pending, initData, verdict>>
    /\ justRead' = NoReq
    /\ \E found \in limit_all(IF h # NoHeader
                              THEN {u \in users : u.id \notin excluded_ids(h)}
                              ELSE users) :
          last' = [Resp("get_users", h, 0, 200, "") EXCEPT
                      !.accounts = {u.id : u \in found}]

(***************************************************************************)
(* Discovery, one request at a time, over a store of DirectorySize         *)
(* accounts: callers 0 and 1 follow and unfollow account 2, and the        *)
(* directory is read with and without a caller.                            *)
(***************************************************************************)
Directory ==
    {UserRow(i, i, "None", "U", "None", "None", "None", <<>>) : i \in 1..DirectorySize}

InitDiscover ==
    /\ users = Directory
    /\ posts = {}
    /\ likes = {}
    /\ comments = {}
    /\ follows = {}
    /\ pending = EmptyBag
    /\ justRead = NoReq
    /\ last = NoResp
    /\ initData = <<>>
    /\ verdict = NotRun

NextDiscover ==
    \/ \E h \in {0, 1} : Sequential /\ toggle_follow_read(h, 2)
    \/ \E r \in PendingReqs : toggle_follow_commit(r)
    \/ \E h \in {NoHeader, 0, 1} : Sequential /\ get_users(h)

SpecDiscover == InitDiscover /\ [][NextDiscover]_vars

\* the accounts a caller may be shown
Discoverable(viewer) ==
    IF viewer = NoHeader THEN {u.id : u \in users}
    ELSE {u.id : u \in {x \in users :
                          /\ x.id # viewer
                          /\ <<viewer, x.id>> \notin FollowPairs(follows)}}

(***************************************************************************)
(* C18: get_users returns at most 20 accounts; with a viewer they are      *)
(* accounts other than the viewer that the viewer has no follow row to at  *)
(* the time of the call (so an account is no longer returned once a        *)
(* toggle_follow has answered 'followed', until one answers 'unfollowed'), *)
(* without a viewer they are any accounts; all of them when they are at    *)
(* most 20, and 20 of them otherwise.                                      *)
(***************************************************************************)
C18_DiscoveryExcludesFollowed ==
    (last.op = "get_users")
    => /\ last.status = 200
       /\ Cardinality(last.accounts) <= 20
       /\ last.accounts \subseteq Discoverable(last.caller)
       /\ \/ last.accounts = Discoverable(last.caller)
          \/ Cardinality(last.accounts) = 20

\* caller 1 follows account 2 and is shown the 19 other accounts
C18_Witness ==
    /\ last.op = "get_users"
    /\ last.caller = 1
    /\ <<1, 2>> \in FollowPairs(follows)
    /\ Cardinality(last.accounts) = DirectorySize - 2
    /\ 1 \notin last.accounts
    /\ 2 \notin last.accounts

(***************************************************************************)
(* Profile updates, one request at a time, with bios around the limit of   *)
(* 160 characters; the caller is account 1 or 2, the absent account 3, or  *)
(* sends no header.                                                        *)
(***************************************************************************)
BioTexts ==
    {NoBio, <<>>, Bio, Repeat("a", MaxBio), Repeat("a", MaxBio + 1),
     Repeat("a", MaxBio) \o Repeat("b", 40), Repeat("b", 200)}

NextBio == \E h \in Headers \cup {3}, b \in BioTexts : Sequential /\ update_profile(h, b)

SpecBio == InitToggle /\ [][NextBio]_vars

(***************************************************************************)
(* C19: update_profile of a caller that has an account never refuses a     *)
(* bio for its length: it answers 200 and the bio stored is the first 160  *)
(* characters of the text sent (the whole text when it has at most 160     *)
(* characters); no other column of the account, no other account and no    *)
(* other table changes (updated_at apart).                                 *)
(***************************************************************************)
C19_BioIsFirst160 ==
    [][(/\ last'.op = "update_profile"
        /\ last'.caller # NoHeader
        /\ last'.body # NoBio
        /\ \E u \in users : u.id = last'.caller)
       => /\ last'.status = 200
          /\ UNCHANGED <<posts, likes, comments, follows>>
          /\ \A u \in users :
                IF u.id # last'.caller THEN u \in users'
                ELSE \E v \in users' :
                        /\ v = [u EXCEPT !.bio = v.bio]
                        /\ Len(v.bio) = IF Len(last'.body) <= 160
                                        THEN Len(last'.body) ELSE 160
                        /\ \A i \in 1..Len(v.bio) : v.bio[i] = last'.body[i]
          /\ Cardinality(users') = Cardinality(users)]_vars

\* a bio of 200 characters was stored as its first 160, all of them "a"
C19_Witness ==
    /\ last.op = "update_profile"
    /\ last.status = 200
    /\ Len(last.body) = 200
    /\ last.body[161] = "b"
    /\ \E u \in users : u.id = last.caller /\ u.bio = Repeat("a", 160)

(***************************************************************************)
(* C20: a toggle_like by caller v on post p adds or removes only the like  *)
(* row of (v, p): every like row of another pair and every account, post,  *)
(* comment and follow row is unchanged.  A toggle_follow by a on b adds or *)
(* removes only the follow row of the ordered pair (a, b): the reverse     *)
(* row (b, a), every other follow row and every other row are unchanged.   *)
(***************************************************************************)
C20_ToggleTouchesOnlyItsPair ==
    [][(BagCardinality(pending') < BagCardinality(pending))
       => /\ last'.op = "toggle_like"
             => /\ UNCHANGED <<users, posts, comments, follows>>
                /\ \A l \in (likes \ likes') \cup (likes' \ likes) :
                      l.user_id = last'.caller /\ l.post_id = last'.target
          /\ last'.op = "toggle_follow"
             => /\ UNCHANGED <<users, posts, likes, comments>>
                /\ \A f \in (follows \ follows') \cup (follows' \ follows) :
                      f.follower_id = last'.caller /\ f.following_id = last'.target]_vars

====
